---------------------------- MODULE Spec2Model ----------------------------
(***************************************************************************)
(* Summation with a fixed structure of inputs (PDP lab 1).                 *)
(*                                                                         *)
(* A VariableSystem keeps integer variables; a primary variable has no     *)
(* inputs, a secondary variable is meant to be the sum of its inputs.      *)
(* Worker threads add deltas to primary variables under per-variable       *)
(* mutexes, a checker thread and the main thread run checkConsistency.     *)
(*                                                                         *)
(* Two variants of the class are modelled: src/main.cpp ("main") and       *)
(* src/unnamed/part_001 ("part_001").  Definitions that differ carry the   *)
(* suffix _p1 for part_001.  The sources define no NDEBUG, so assert is    *)
(* the checking macro: a failed assertion calls abort.                     *)
(*                                                                         *)
(* part_001 takes its constants from a header that is not among the        *)
(* sources; the values of main.cpp stand for them.  SensorSystem           *)
(* (src/unnamed/part_000, suffix _p0) is an earlier stage of the same      *)
(* class: its updateVariable takes the locks and writes nothing, and its   *)
(* checkConsistency checks every variable.                                 *)
(*                                                                         *)
(* Vectors are functions on 0..n-1; the inner input lists are sequences.   *)
(***************************************************************************)
EXTENDS Integers, Sequences, FiniteSets

VARIABLES
    variant,              \* which source file's VariableSystem runs
    dependencies,         \* const vector<vector<size_t>> dependencies
    dependents,           \* const vector<vector<size_t>> dependents
    variables,            \* vector<int> variables
    locks,                \* vector<unique_ptr<mutex>>: owner thread or NoOwner
    aborted,              \* the process was terminated by a failed assert
    failure,              \* the assertion that failed (NoFailure if none)
    pc,                   \* each thread's position
    i,                    \* each thread's loop counter
    variableId,           \* updateVariable's argument
    delta,                \* updateVariable's argument
    variablesDependents,  \* updateVariable's local: the ids to lock, in order
    lockGuards,           \* the local vector<unique_lock>: ids locked, in order
    result,               \* the vector search() returned to the write loop
    k,                    \* position of the write loop in result
    tmp,                  \* the value loaded by variables[id] += delta
    index,                \* checkConsistency's loop variable
    turns,                \* history: loop iterations begun by the started threads
    serial,               \* history: the calls so far, each applied in one piece
    recomputed            \* history: the calls so far, by full recomputation

sysVars == <<variant, dependencies, dependents>>
histVars == <<serial, recomputed>>
updVars == <<variableId, delta, variablesDependents, result, k, tmp>>
vars == <<variant, dependencies, dependents, variables, locks, aborted, failure,
          pc, i, variableId, delta, variablesDependents, lockGuards, result, k,
          tmp, index, turns, serial, recomputed>>

-----------------------------------------------------------------------------
(* Bounds of the model *)

\* cap on the loop iterations the worker threads and the checker thread begin,
\* all together, in one run (the final check of gatherThreads is not counted)
MaxTurns == 2

\* cap on the number of variables of the graphs of the one-caller runs
MaxNodes == 3

\* cap on the length of an input list of those graphs
MaxInputs == 2

\* cap on the number of updateVariable calls of a one-caller run
MaxCalls == 2

(* Program constants *)
WORKER_ITER_COUNT == 20
CC_ITER_COUNT == 30
UPDATE_RANGE == 20
UPDATE_MEAN_VALUE == 10

-----------------------------------------------------------------------------
(* Vectors and library routines *)

Vec(s) == [x \in 0..(Len(s) - 1) |-> s[x + 1]]

VSize(v) == Cardinality(DOMAIN v)

Range(s) == {s[n] : n \in DOMAIN s}

\* std::find(list.begin(), list.end(), x) != list.end()
Found(list, x) == \E n \in 1..Len(list) : list[n] = x

\* std::count(list.begin(), list.end(), x)
RECURSIVE Count(_, _)
Count(list, x) ==
    IF list = <<>> THEN 0
    ELSE (IF Head(list) = x THEN 1 ELSE 0) + Count(Tail(list), x)

\* n copies of x, as the loop of emplace_back calls appends them
RECURSIVE Copies(_, _)
Copies(n, x) == IF n <= 0 THEN <<>> ELSE <<x>> \o Copies(n - 1, x)

\* insertion of x into an ascending sequence
RECURSIVE InsertSorted(_, _)
InsertSorted(s, x) ==
    IF s = <<>> THEN <<x>>
    ELSE IF x <= Head(s) THEN <<x>> \o s
    ELSE <<Head(s)>> \o InsertSorted(Tail(s), x)

\* std::sort(result.begin(), result.end())
RECURSIVE sort(_)
sort(s) == IF s = <<>> THEN <<>> ELSE InsertSorted(sort(Tail(s)), Head(s))

\* std::set<size_t>{first, last}: the distinct elements, iterated ascending
RECURSIVE MakeSet(_)
MakeSet(s) ==
    IF s = <<>> THEN <<>>
    ELSE LET rest == MakeSet(Tail(s))
         IN  IF Found(rest, Head(s)) THEN rest ELSE InsertSorted(rest, Head(s))

-----------------------------------------------------------------------------
(* Construction: the inverse adjacency *)

\* the inner loop with the two indices taken one for the other in the std::find
RECURSIVE inverseRowSwapped(_, _, _)
inverseRowSwapped(deps, dependentIndex, d) ==
    IF d >= VSize(deps) THEN <<>>
    ELSE (IF Found(deps[dependentIndex], d) THEN <<d>> ELSE <<>>)
         \o inverseRowSwapped(deps, dependentIndex, d + 1)

\* the inner loop with std::count in place of std::find: one entry per occurrence
RECURSIVE inverseRowCounted(_, _, _)
inverseRowCounted(deps, dependentIndex, d) ==
    IF d >= VSize(deps) THEN <<>>
    ELSE Copies(Count(deps[d], dependentIndex), d)
         \o inverseRowCounted(deps, dependentIndex, d + 1)

\* main.cpp computeDependents: the inner loop over dependencyIndex, from d on
\* (part_000 has the same loop)
RECURSIVE inverseRow(_, _, _)
inverseRow(deps, dependentIndex, d) ==
    IF d >= VSize(deps) THEN <<>>
    ELSE (IF Found(deps[d], dependentIndex) THEN <<d>> ELSE <<>>)
         \o inverseRow(deps, dependentIndex, d + 1)

\* part_001 computeDependents: one entry per occurrence
RECURSIVE inverseRow_p1(_, _, _)
inverseRow_p1(deps, dependentIndex, d) ==
    IF d >= VSize(deps) THEN <<>>
    ELSE Copies(Count(deps[d], dependentIndex), d)
         \o inverseRow_p1(deps, dependentIndex, d + 1)

computeDependents(v, deps) ==
    [dependentIndex \in DOMAIN deps |->
        IF v = "part_001" THEN inverseRow_p1(deps, dependentIndex, 0)
        ELSE inverseRow(deps, dependentIndex, 0)]

createVariables(deps) == [id \in DOMAIN deps |-> 0]

NoOwner == -1

createLocks(deps) == [id \in DOMAIN deps |-> NoOwner]

-----------------------------------------------------------------------------
(* The closure searches *)

\* main.cpp search: the lambda dfs(var), its for loop from the n-th entry on;
\* st is the captured state [visited, result]
RECURSIVE dfs(_, _, _, _)
dfs(searchSpace, var, n, st) ==
    IF n > Len(searchSpace[var]) THEN st
    ELSE LET dep == searchSpace[var][n]
             pushed == [st EXCEPT !.result = Append(@, dep)]
             after == IF dep \in st.visited THEN pushed
                      ELSE dfs(searchSpace, dep, 1,
                               [pushed EXCEPT !.visited = @ \cup {dep}])
         IN  dfs(searchSpace, var, n + 1, after)

searchMain(startID, searchSpace) ==
    sort(dfs(searchSpace, startID, 1,
             [visited |-> {startID}, result |-> <<startID>>]).result)

\* main.cpp uniqueSearch: the lambda dfs(var), its for loop from the n-th entry on
RECURSIVE dfsUnique(_, _, _, _)
dfsUnique(searchSpace, var, n, st) ==
    IF n > Len(searchSpace[var]) THEN st
    ELSE LET dep == searchSpace[var][n]
             after == IF dep \in st.visited THEN st
                      ELSE LET back == dfsUnique(searchSpace, dep, 1,
                                           [st EXCEPT !.visited = @ \cup {dep}])
                           IN  [back EXCEPT !.result = Append(@, dep)]
         IN  dfsUnique(searchSpace, var, n + 1, after)

\* uniqueSearch without its std::sort
uniqueSearchUnsorted(startID, searchSpace) ==
    dfsUnique(searchSpace, startID, 1,
              [visited |-> {startID}, result |-> <<startID>>]).result

\* uniqueSearch with result begun empty: the start id is left out
uniqueSearchNoStart(startID, searchSpace) ==
    sort(dfsUnique(searchSpace, startID, 1,
                   [visited |-> {startID}, result |-> <<>>]).result)

uniqueSearch(startID, searchSpace) ==
    sort(dfsUnique(searchSpace, startID, 1,
                   [visited |-> {startID}, result |-> <<startID>>]).result)

\* the search of SensorSystem (part_000): the same lambda as uniqueSearch's
search_p0(startID, searchSpace) ==
    sort(dfsUnique(searchSpace, startID, 1,
                   [visited |-> {startID}, result |-> <<startID>>]).result)

\* part_001 search: the for loop over searchSpace[current] from the n-th entry on;
\* st is [stack, visited, result], the top of the stack is its last element
RECURSIVE forDeps_p1(_, _, _, _)
forDeps_p1(searchSpace, current, n, st) ==
    IF n > Len(searchSpace[current]) THEN st
    ELSE LET dep == searchSpace[current][n]
             pushed == [st EXCEPT !.result = Append(@, dep)]
             after == IF dep \in st.visited THEN pushed
                      ELSE [pushed EXCEPT !.visited = @ \cup {dep},
                                          !.stack = Append(@, dep)]
         IN  forDeps_p1(searchSpace, current, n + 1, after)

\* part_001 search: the while (!stack.empty()) loop
RECURSIVE whileStack_p1(_, _)
whileStack_p1(searchSpace, st) ==
    IF st.stack = <<>> THEN st
    ELSE LET current == st.stack[Len(st.stack)]
             popped == [st EXCEPT !.stack = SubSeq(@, 1, Len(@) - 1)]
         IN  whileStack_p1(searchSpace, forDeps_p1(searchSpace, current, 1, popped))

search_p1(startID, searchSpace) ==
    sort(whileStack_p1(searchSpace,
                       [stack |-> <<startID>>, visited |-> {startID},
                        result |-> <<startID>>]).result)

\* the search started at variable 0 whatever startID is
searchFromZero(v, startID, searchSpace) ==
    IF v = "part_001" THEN search_p1(0, searchSpace)
    ELSE searchMain(0, searchSpace)

\* the write loop run over the list of the locks: each id once
searchOnce(v, startID, searchSpace) ==
    IF v = "part_001" THEN MakeSet(search_p1(startID, searchSpace))
    ELSE uniqueSearch(startID, searchSpace)

\* the search() the write loop of updateVariable calls
search(v, startID, searchSpace) ==
    IF v = "part_001" THEN search_p1(startID, searchSpace)
    ELSE searchMain(startID, searchSpace)

\* the lock list taken from search(), repeats kept
getAllDependentsWithRepeats(v, variableID, deps) == search(v, variableID, deps)

\* the lock list without the updated variable itself
getAllDependentsOnly(v, variableID, deps) ==
    SelectSeq(uniqueSearch(variableID, deps), LAMBDA x : x # variableID)

\* the lock list of checkConsistency: every variable
getAllDependentsWhole(v, variableID, deps) == [n \in 1..VSize(deps) |-> n - 1]

\* the lock list of the updated variable alone
getAllDependentsSelf(v, variableID, deps) == <<variableID>>

\* the lock list without recursion: the variable and its direct dependents
getAllDependentsDirect(v, variableID, deps) ==
    MakeSet(<<variableID>> \o deps[variableID])

\* the ids updateVariable locks, in the order it locks them
getAllDependents(v, variableID, deps) ==
    IF v = "part_001" THEN MakeSet(search_p1(variableID, deps))
    ELSE IF v = "part_000" THEN search_p0(variableID, deps)
    ELSE uniqueSearch(variableID, deps)

-----------------------------------------------------------------------------
(* The system and its threads *)

size == VSize(dependencies)

Ids == DOMAIN dependencies

\* assert(variableId < size)
InRange(id) == id < size

\* the wrong table consulted: dependents instead of dependencies
IsPrimaryByDependents(id) == dependents[id] = <<>>

\* dependencies[variableId].empty()
IsPrimary(id) == dependencies[id] = <<>>

\* startThreads: std::count_if over dependencies of the empty input lists
baseVariableCount == Cardinality({id \in Ids : dependencies[id] = <<>>})

\* main() runs the constructor, hence startThreads and gatherThreads
MainThread == 0

\* threads[0 .. baseVariableCount-1] run workerThreadBody
Workers == 1..baseVariableCount

\* threads[baseVariableCount] runs ccThreadBody
CCThread == baseVariableCount + 1

Threads == {MainThread} \cup Workers \cup {CCThread}

Checkers == {MainThread, CCThread}

\* std::rand() % UPDATE_RANGE - UPDATE_MEAN_VALUE
DeltaRange == {r - UPDATE_MEAN_VALUE : r \in 0..(UPDATE_RANGE - 1)}

\* the deltas the model draws
Deltas == DeltaRange \cap {-1, 1}

\* a unique_lock constructed without taking the mutex (std::defer_lock)
AcquireDeferred(lockState, id, t) == lockState

\* unique_lock<mutex>(*locks[id]) once the mutex is free
Acquire(lockState, id, t) == [lockState EXCEPT ![id] = t]

\* mutexes locked without a guard: nothing unlocks them at scope exit
ReleaseNone(lockState, guards, t) == lockState

\* ~vector<unique_lock>: every guard that owns its mutex unlocks it
Release(lockState, guards, t) ==
    [id \in DOMAIN lockState |->
        IF id \in Range(guards) /\ lockState[id] = t THEN NoOwner
        ELSE lockState[id]]

\* std::accumulate(list.cbegin(), list.cend(), acc, partialSum + variables[valueId])
RECURSIVE accumulate(_, _, _)
accumulate(list, acc, vals) ==
    IF list = <<>> THEN acc
    ELSE accumulate(Tail(list), acc + vals[Head(list)], vals)

\* the sum over the distinct inputs only
expectedValueDistinct(vals, id) == accumulate(MakeSet(dependencies[id]), 0, vals)

\* checkConsistency: expectedValue of variable id
expectedValue(vals, id) == accumulate(dependencies[id], 0, vals)

\* the write loop with an assignment (=) where the code has +=
RECURSIVE addAllAssign(_, _, _)
addAllAssign(vals, res, d) ==
    IF res = <<>> THEN vals
    ELSE addAllAssign([vals EXCEPT ![Head(res)] = d], Tail(res), d)

\* the write loop of updateVariable run in one piece over the list res
RECURSIVE addAll(_, _, _)
addAll(vals, res, d) ==
    IF res = <<>> THEN vals
    ELSE addAll([vals EXCEPT ![Head(res)] = @ + d], Tail(res), d)

-----------------------------------------------------------------------------
(* What the variables are meant to be *)

\* the value of id when every secondary is recomputed bottom-up from the primaries
RECURSIVE FullValue(_, _)
FullValue(vals, id) ==
    IF dependencies[id] = <<>> THEN vals[id]
    ELSE LET RECURSIVE sumFrom(_)
             sumFrom(n) == IF n > Len(dependencies[id]) THEN 0
                           ELSE FullValue(vals, dependencies[id][n]) + sumFrom(n + 1)
         IN  sumFrom(1)

Recompute(vals) == [id \in Ids |-> FullValue(vals, id)]

\* the sum of the stored values of the inputs of id, repeats counted
InputSum(id) ==
    LET RECURSIVE sumFrom(_)
        sumFrom(n) == IF n > Len(dependencies[id]) THEN 0
                      ELSE variables[dependencies[id][n]] + sumFrom(n + 1)
    IN  sumFrom(1)

\* the ids that depend on id, directly or indirectly, and id itself
RECURSIVE Grow(_)
Grow(S) ==
    LET T == S \cup {d \in Ids : \E v \in S : v \in Range(dependencies[d])}
    IN  IF T = S THEN S ELSE Grow(T)

Closure(id) == Grow({id})

-----------------------------------------------------------------------------
(* The graphs the concurrent runs are built on *)

\* {0:[], 1:[], 2:[0,1], 3:[2,0]}: variable 0 used at two levels
GraphTwoLevels == Vec(<< <<>>, <<>>, <<0, 1>>, <<2, 0>> >>)

\* {0:[], 1:[0,0]}: a repeated input
GraphRepeated == Vec(<< <<>>, <<0, 0>> >>)

\* {0:[1], 1:[2,2], 2:[]}: the primary has the highest id, 1 repeats it, 0 is behind 1
GraphDescending == Vec(<< <<1>>, <<2, 2>>, <<>> >>)

\* {0:[], 1:[], 2:[0], 3:[1]}: two primaries with disjoint closures
GraphDisjoint == Vec(<< <<>>, <<>>, <<0>>, <<1>> >>)

\* {0:[], 1:[]}: primaries that nothing depends on
GraphPlain == Vec(<< <<>>, <<>> >>)

\* {0:[], 1:[0], 2:[1,0], 3:[2]}: variable 0 used at two levels, 3 behind them
GraphBehind == Vec(<< <<>>, <<0>>, <<1, 0>>, <<2>> >>)

Graphs == {GraphTwoLevels, GraphRepeated, GraphDescending, GraphDisjoint, GraphPlain}

Variants == {"main", "part_001"}

\* the source files that compute a lock list
Sources == Variants \cup {"part_000"}

NoFailure == [kind |-> "none"]

\* the constructor of one of the classes of srcs, for a graph of the set graphs
InitWith(srcs, graphs) ==
    /\ variant \in srcs
    /\ dependencies \in graphs
    /\ dependents = computeDependents(variant, dependencies)
    /\ variables = createVariables(dependencies)
    /\ locks = createLocks(dependencies)
    /\ aborted = FALSE
    /\ failure = NoFailure
    /\ pc = [t \in Threads |-> IF t = MainThread THEN "join" ELSE "loop"]
    /\ i = [t \in Threads |-> 0]
    /\ variableId = [t \in Threads |-> 0]
    /\ delta = [t \in Threads |-> 0]
    /\ variablesDependents = [t \in Threads |-> <<>>]
    /\ lockGuards = [t \in Threads |-> <<>>]
    /\ result = [t \in Threads |-> <<>>]
    /\ k = [t \in Threads |-> 0]
    /\ tmp = [t \in Threads |-> 0]
    /\ index = [t \in Threads |-> 0]
    /\ turns = 0
    /\ serial = createVariables(dependencies)
    /\ recomputed = createVariables(dependencies)

\* the constructor of VariableSystem, for a graph of the set graphs
InitOn(graphs) == InitWith(Variants, graphs)

Init == InitOn(Graphs)

-----------------------------------------------------------------------------
(* The worker threads: workerThreadBody *)

\* a call updateVariable(id, d) by thread t
Call(t, id, d) ==
    /\ pc' = [pc EXCEPT ![t] = "upd_enter"]
    /\ variableId' = [variableId EXCEPT ![t] = id]
    /\ delta' = [delta EXCEPT ![t] = d]

\* the worker's loop without the test on dependencies[variableId]: any id is passed
WorkerLoopUnchecked(t) ==
    /\ ~aborted
    /\ variant = "main"
    /\ t \in Workers
    /\ pc[t] = "loop"
    /\ i' = [i EXCEPT ![t] = @ + 1]
    /\ IF i[t] + 1 < WORKER_ITER_COUNT /\ turns < MaxTurns
       THEN /\ turns' = turns + 1
            /\ \E id \in 0..(size - 1), d \in Deltas : Call(t, id, d)
       ELSE /\ pc' = [pc EXCEPT ![t] = "done"]
            /\ UNCHANGED <<variableId, delta, turns>>
    /\ UNCHANGED <<sysVars, histVars, variables, locks, aborted, failure,
                   variablesDependents, lockGuards, result, k, tmp, index>>

\* main.cpp: while (++i < WORKER_ITER_COUNT) { id = rand() % size; if primary: update }
\* The generators are shared by the threads without a lock (std::rand, and the
\* static std::mt19937 of part_001): whatever they return, id is a remainder
\* modulo size and delta a remainder shifted by UPDATE_MEAN_VALUE, so both are
\* drawn freely from their ranges.
WorkerLoop(t) ==
    /\ ~aborted
    /\ variant = "main"
    /\ t \in Workers
    /\ pc[t] = "loop"
    /\ i' = [i EXCEPT ![t] = @ + 1]
    /\ IF i[t] + 1 < WORKER_ITER_COUNT /\ turns < MaxTurns
       THEN /\ turns' = turns + 1
            /\ \E id \in 0..(size - 1) :
                   IF dependencies[id] = <<>>
                   THEN \E d \in Deltas : Call(t, id, d)
                   ELSE UNCHANGED <<pc, variableId, delta>>
       ELSE /\ pc' = [pc EXCEPT ![t] = "done"]
            /\ UNCHANGED <<variableId, delta, turns>>
    /\ UNCHANGED <<sysVars, histVars, variables, locks, aborted, failure,
                   variablesDependents, lockGuards, result, k, tmp, index>>

\* part_001: for (i = 0; i < WORKER_ITER_COUNT; ++i); a secondary id or a zero
\* delta stalls the iteration (--i; continue), the increment follows the call
WorkerLoop_p1(t) ==
    /\ ~aborted
    /\ variant = "part_001"
    /\ t \in Workers
    /\ pc[t] = "loop"
    /\ IF i[t] < WORKER_ITER_COUNT /\ turns < MaxTurns
       THEN \E id \in 0..(size - 1), d \in Deltas \cup {0} :
                IF dependencies[id] # <<>> \/ d = 0
                THEN UNCHANGED <<pc, variableId, delta, turns>>
                ELSE Call(t, id, d) /\ turns' = turns + 1
       ELSE /\ pc' = [pc EXCEPT ![t] = "done"]
            /\ UNCHANGED <<variableId, delta, turns>>
    /\ UNCHANGED <<sysVars, histVars, variables, locks, aborted, failure, i,
                   variablesDependents, lockGuards, result, k, tmp, index>>

\* a driver that calls updateVariable with any id, in range or not, in place of
\* one iteration of the worker's loop
ApiCall(t) ==
    /\ ~aborted
    /\ t \in Workers
    /\ pc[t] = "loop"
    /\ turns < MaxTurns
    /\ turns' = turns + 1
    /\ i' = [i EXCEPT ![t] = IF variant = "part_001" THEN @ ELSE @ + 1]
    /\ \E id \in 0..size, d \in Deltas : Call(t, id, d)
    /\ UNCHANGED <<sysVars, histVars, variables, locks, aborted, failure,
                   variablesDependents, lockGuards, result, k, tmp, index>>

-----------------------------------------------------------------------------
(* updateVariable *)

\* a failed assert: abort() ends the process as it stands
Abort(what) ==
    /\ aborted' = TRUE
    /\ failure' = what

\* the two precondition asserts hold; getAllDependents
UpdateEnter(t) ==
    /\ ~aborted
    /\ pc[t] = "upd_enter"
    /\ InRange(variableId[t])
    /\ IsPrimary(variableId[t])
    /\ variablesDependents' =
           [variablesDependents EXCEPT
               ![t] = getAllDependents(variant, variableId[t], dependents)]
    /\ lockGuards' = [lockGuards EXCEPT ![t] = <<>>]
    /\ pc' = [pc EXCEPT ![t] = "upd_lock"]
    /\ serial' = addAll(serial, search(variant, variableId[t], dependents), delta[t])
    /\ recomputed' = Recompute([recomputed EXCEPT ![variableId[t]] = @ + delta[t]])
    /\ UNCHANGED turns
    /\ UNCHANGED <<sysVars, variables, locks, aborted, failure, i, variableId,
                   delta, result, k, tmp, index>>

\* one of the two precondition asserts fails
UpdateReject(t) ==
    /\ ~aborted
    /\ pc[t] = "upd_enter"
    /\ ~(InRange(variableId[t]) /\ IsPrimary(variableId[t]))
    /\ Abort([kind |-> "precondition", thread |-> t, id |-> variableId[t]])
    /\ UNCHANGED turns
    /\ UNCHANGED <<sysVars, histVars, variables, locks, pc, i, updVars,
                   lockGuards, index>>

\* for (dep : variablesDependents) lockGuards.emplace_back(*locks[dep]), one turn
UpdateLock(t) ==
    /\ ~aborted
    /\ pc[t] = "upd_lock"
    /\ Len(lockGuards[t]) < Len(variablesDependents[t])
    /\ LET dep == variablesDependents[t][Len(lockGuards[t]) + 1]
       IN  /\ locks[dep] = NoOwner
           /\ locks' = Acquire(locks, dep, t)
           /\ lockGuards' = [lockGuards EXCEPT ![t] = Append(@, dep)]
    /\ UNCHANGED turns
    /\ UNCHANGED <<sysVars, histVars, variables, aborted, failure, pc, i,
                   updVars, index>>

\* every lock is taken: search(variableId, dependents) for the write loop
UpdateSearch(t) ==
    /\ ~aborted
    /\ pc[t] = "upd_lock"
    /\ Len(lockGuards[t]) = Len(variablesDependents[t])
    /\ result' = [result EXCEPT ![t] = search(variant, variableId[t], dependents)]
    /\ k' = [k EXCEPT ![t] = 1]
    /\ pc' = [pc EXCEPT ![t] = "upd_add"]
    /\ UNCHANGED turns
    /\ UNCHANGED <<sysVars, histVars, variables, locks, aborted, failure, i,
                   variableId, delta, variablesDependents, lockGuards, tmp, index>>

\* variables[id] += delta: the load
UpdateLoad(t) ==
    /\ ~aborted
    /\ pc[t] = "upd_add"
    /\ k[t] <= Len(result[t])
    /\ tmp' = [tmp EXCEPT ![t] = variables[result[t][k[t]]]]
    /\ pc' = [pc EXCEPT ![t] = "upd_store"]
    /\ UNCHANGED turns
    /\ UNCHANGED <<sysVars, histVars, variables, locks, aborted, failure, i,
                   variableId, delta, variablesDependents, lockGuards, result, k,
                   index>>

\* variables[id] += delta: the store
UpdateStore(t) ==
    /\ ~aborted
    /\ pc[t] = "upd_store"
    /\ variables' = [variables EXCEPT ![result[t][k[t]]] = tmp[t] + delta[t]]
    /\ k' = [k EXCEPT ![t] = @ + 1]
    /\ pc' = [pc EXCEPT ![t] = "upd_add"]
    /\ UNCHANGED turns
    /\ UNCHANGED <<sysVars, histVars, locks, aborted, failure, i, variableId,
                   delta, variablesDependents, lockGuards, result, tmp, index>>

\* the write loop is over: the guards unlock and the call returns to the loop
UpdateReturn(t) ==
    /\ ~aborted
    /\ pc[t] = "upd_add"
    /\ k[t] > Len(result[t])
    /\ locks' = Release(locks, lockGuards[t], t)
    /\ lockGuards' = [lockGuards EXCEPT ![t] = <<>>]
    /\ pc' = [pc EXCEPT ![t] = "loop"]
    /\ i' = [i EXCEPT ![t] = IF variant = "part_001" THEN @ + 1 ELSE @]
    /\ UNCHANGED turns
    /\ UNCHANGED <<sysVars, histVars, variables, aborted, failure, updVars, index>>

-----------------------------------------------------------------------------
(* checkConsistency, its callers ccThreadBody and gatherThreads *)

\* main.cpp: while (++i < CC_ITER_COUNT) checkConsistency()
CheckerLoop(t) ==
    /\ ~aborted
    /\ variant = "main"
    /\ t = CCThread
    /\ pc[t] = "loop"
    /\ i' = [i EXCEPT ![t] = @ + 1]
    /\ IF i[t] + 1 < CC_ITER_COUNT /\ turns < MaxTurns
       THEN pc' = [pc EXCEPT ![t] = "cc_lock"] /\ turns' = turns + 1
       ELSE pc' = [pc EXCEPT ![t] = "done"] /\ turns' = turns
    /\ UNCHANGED <<sysVars, histVars, variables, locks, aborted, failure,
                   updVars, lockGuards, index>>

\* part_001: for (i = 0; i < CC_ITER_COUNT; ++i) checkConsistency()
CheckerLoop_p1(t) ==
    /\ ~aborted
    /\ variant = "part_001"
    /\ t = CCThread
    /\ pc[t] = "loop"
    /\ IF i[t] < CC_ITER_COUNT /\ turns < MaxTurns
       THEN pc' = [pc EXCEPT ![t] = "cc_lock"] /\ turns' = turns + 1
       ELSE pc' = [pc EXCEPT ![t] = "done"] /\ turns' = turns
    /\ UNCHANGED <<sysVars, histVars, variables, locks, aborted, failure, i,
                   updVars, lockGuards, index>>

\* gatherThreads: every thread is joined, then checkConsistency()
MainJoin(t) ==
    /\ ~aborted
    /\ t = MainThread
    /\ pc[t] = "join"
    /\ \A u \in Threads \ {MainThread} : pc[u] = "done"
    /\ pc' = [pc EXCEPT ![t] = "cc_lock"]
    /\ UNCHANGED turns
    /\ UNCHANGED <<sysVars, histVars, variables, locks, aborted, failure, i,
                   updVars, lockGuards, index>>

\* for (lock : locks) lockGuards.emplace_back(*lock), one turn
CheckLock(t) ==
    /\ ~aborted
    /\ pc[t] = "cc_lock"
    /\ LET id == Len(lockGuards[t])
       IN  /\ locks[id] = NoOwner
           /\ locks' = Acquire(locks, id, t)
           /\ lockGuards' = [lockGuards EXCEPT ![t] = Append(@, id)]
           /\ pc' = [pc EXCEPT ![t] = IF id + 1 = size THEN "cc_check" ELSE @]
    /\ index' = [index EXCEPT ![t] = 0]
    /\ UNCHANGED turns
    /\ UNCHANGED <<sysVars, histVars, variables, aborted, failure, i, updVars>>

\* one turn of the loop over index: a primary, or a secondary whose sum matches
CheckPass(t) ==
    /\ ~aborted
    /\ pc[t] = "cc_check"
    /\ index[t] < size
    /\ \/ dependencies[index[t]] = <<>>
       \/ expectedValue(variables, index[t]) = variables[index[t]]
    /\ index' = [index EXCEPT ![t] = @ + 1]
    /\ UNCHANGED turns
    /\ UNCHANGED <<sysVars, histVars, variables, locks, aborted, failure, pc, i,
                   updVars, lockGuards>>

\* one turn of the loop over index: the assert on expectedValue == actualValue fails
CheckFail(t) ==
    /\ ~aborted
    /\ pc[t] = "cc_check"
    /\ index[t] < size
    /\ dependencies[index[t]] # <<>>
    /\ expectedValue(variables, index[t]) # variables[index[t]]
    /\ Abort([kind |-> "consistency", thread |-> t, id |-> index[t],
              expected |-> expectedValue(variables, index[t]),
              actual |-> variables[index[t]]])
    /\ UNCHANGED turns
    /\ UNCHANGED <<sysVars, histVars, variables, locks, pc, i, updVars,
                   lockGuards, index>>

\* the loop is over: the guards unlock and the call returns
CheckReturn(t) ==
    /\ ~aborted
    /\ pc[t] = "cc_check"
    /\ index[t] = size
    /\ locks' = Release(locks, lockGuards[t], t)
    /\ lockGuards' = [lockGuards EXCEPT ![t] = <<>>]
    /\ pc' = [pc EXCEPT ![t] = IF t = MainThread THEN "done" ELSE "loop"]
    /\ i' = [i EXCEPT ![t] = IF variant = "part_001" /\ t = CCThread THEN @ + 1 ELSE @]
    /\ UNCHANGED turns
    /\ UNCHANGED <<sysVars, histVars, variables, aborted, failure, updVars, index>>

-----------------------------------------------------------------------------
(* The program: the constructor starts the threads and gathers them *)

Next ==
    \/ \E t \in Threads : WorkerLoop(t)
    \/ \E t \in Threads : WorkerLoop_p1(t)
    \/ \E t \in Threads : UpdateEnter(t)
    \/ \E t \in Threads : UpdateLock(t)
    \/ \E t \in Threads : UpdateSearch(t)
    \/ \E t \in Threads : UpdateLoad(t)
    \/ \E t \in Threads : UpdateStore(t)
    \/ \E t \in Threads : UpdateReturn(t)
    \/ \E t \in Threads : CheckerLoop(t)
    \/ \E t \in Threads : CheckerLoop_p1(t)
    \/ \E t \in Threads : MainJoin(t)
    \/ \E t \in Threads : CheckLock(t)
    \/ \E t \in Threads : CheckPass(t)
    \/ \E t \in Threads : CheckFail(t)
    \/ \E t \in Threads : CheckReturn(t)

Spec == Init /\ [][Next]_vars

(* The program with a driver that calls updateVariable with any id *)

NextApi ==
    \/ Next
    \/ \E t \in Threads : ApiCall(t)
    \/ \E t \in Threads : UpdateReject(t)

SpecApi == Init /\ [][NextApi]_vars

-----------------------------------------------------------------------------
(* One caller: the operations run one after another, each in one piece,    *)
(* on every small graph whose edges all point the same way along the ids   *)
(* and on the graphs named above                                           *)

\* the input lists over the ids of S
Lists(S) == UNION {[1..m -> S] : m \in 0..MaxInputs}

\* the graphs of n variables, as sequences, whose inputs have smaller ids
RECURSIVE ForwardGraphs(_)
ForwardGraphs(n) ==
    IF n = 0 THEN {<<>>}
    ELSE {Append(g, l) : g \in ForwardGraphs(n - 1), l \in Lists(0..(n - 2))}

\* the graph g with the ids renumbered downwards: the inputs have larger ids
Mirror(g) ==
    [j \in 1..Len(g) |->
        [m \in 1..Len(g[Len(g) + 1 - j]) |-> Len(g) - 1 - g[Len(g) + 1 - j][m]]]

SeqGraphs ==
    UNION {{Vec(g), Vec(Mirror(g))} :
              g \in UNION {ForwardGraphs(n) : n \in 1..MaxNodes}}
    \cup Graphs \cup {GraphBehind}

\* the deltas the single caller draws
SeqDeltas == DeltaRange \cap {0, 1}

InitSeq == InitOn(SeqGraphs)

\* every lock of the sequence ids taken by thread t
RECURSIVE AcquireAll(_, _, _)
AcquireAll(lockState, ids, t) ==
    IF ids = <<>> THEN lockState
    ELSE AcquireAll(Acquire(lockState, Head(ids), t), Tail(ids), t)

\* updateVariable(id, d) from its asserts to its return, called by thread 1
SeqUpdate ==
    /\ ~aborted
    /\ turns < MaxCalls
    /\ turns' = turns + 1
    /\ \E id \in Ids, d \in SeqDeltas :
          /\ InRange(id)
          /\ IsPrimary(id)
          /\ LET guards == getAllDependents(variant, id, dependents)
             IN  locks' = Release(AcquireAll(locks, guards, 1), guards, 1)
          /\ variables' = addAll(variables, search(variant, id, dependents), d)
          /\ variableId' = [variableId EXCEPT ![1] = id]
          /\ delta' = [delta EXCEPT ![1] = d]
          /\ serial' = addAll(serial, search(variant, id, dependents), d)
          /\ recomputed' = Recompute([recomputed EXCEPT ![id] = @ + d])
    /\ UNCHANGED <<sysVars, aborted, failure, pc, i, variablesDependents,
                   lockGuards, result, k, tmp, index>>

\* the secondary variables whose assert in checkConsistency fails
Mismatched == {id \in Ids : dependencies[id] # <<>>
                            /\ expectedValue(variables, id) # variables[id]}

\* checkConsistency from its locks to its return, every assert holding
SeqCheckPass ==
    /\ ~aborted
    /\ Mismatched = {}
    /\ LET all == [n \in 1..size |-> n - 1]
       IN  locks' = Release(AcquireAll(locks, all, MainThread), all, MainThread)
    /\ UNCHANGED <<sysVars, histVars, variables, aborted, failure, pc, i, turns,
                   updVars, lockGuards, index>>

\* checkConsistency up to the first assert that fails
SeqCheckFail ==
    /\ ~aborted
    /\ Mismatched # {}
    /\ LET id == CHOOSE m \in Mismatched : \A n \in Mismatched : m <= n
           all == [n \in 1..size |-> n - 1]
       IN  /\ locks' = AcquireAll(locks, all, MainThread)
           /\ lockGuards' = [lockGuards EXCEPT ![MainThread] = all]
           /\ index' = [index EXCEPT ![MainThread] = id]
           /\ Abort([kind |-> "consistency", thread |-> MainThread, id |-> id,
                     expected |-> expectedValue(variables, id),
                     actual |-> variables[id]])
    /\ UNCHANGED <<sysVars, histVars, variables, pc, i, turns, updVars>>

NextSeq == SeqUpdate \/ SeqCheckPass \/ SeqCheckFail

SpecSeq == InitSeq /\ [][NextSeq]_vars

-----------------------------------------------------------------------------
(* The lock list alone: getAllDependents called for any id of any small    *)
(* graph, in each of the three sources                                     *)

InitLockList == InitWith(Sources, SeqGraphs)

\* getAllDependents(variableID) called by thread 1: its assert, then the search
GetAllDependents(variableID) ==
    /\ InRange(variableID)
    /\ variableId' = [variableId EXCEPT ![1] = variableID]
    /\ variablesDependents' =
           [variablesDependents EXCEPT
               ![1] = getAllDependents(variant, variableID, dependents)]
    /\ pc' = [pc EXCEPT ![1] = "upd_lock"]
    /\ UNCHANGED <<sysVars, histVars, variables, locks, aborted, failure, i,
                   delta, lockGuards, result, k, tmp, index, turns>>

NextLockList == \E variableID \in Ids : GetAllDependents(variableID)

SpecLockList == InitLockList /\ [][NextLockList]_vars

-----------------------------------------------------------------------------
(* SensorSystem (part_000): main() constructs it, starts and gathers the   *)
(* threads                                                                 *)

\* while (++i < 20) in the worker's lambda
WORKER_ITER_COUNT_p0 == 20

\* while (++i < 10) in the checker's lambda
CC_ITER_COUNT_p0 == 10

InitSensor == InitWith({"part_000"}, Graphs)

\* while (++i < 20) { id = rand() % size; if primary: updateVariable(id, rand() % 20 - 10) }
WorkerLoop_p0(t) ==
    /\ ~aborted
    /\ variant = "part_000"
    /\ t \in Workers
    /\ pc[t] = "loop"
    /\ i' = [i EXCEPT ![t] = @ + 1]
    /\ IF i[t] + 1 < WORKER_ITER_COUNT_p0 /\ turns < MaxTurns
       THEN /\ turns' = turns + 1
            /\ \E id \in 0..(size - 1) :
                   IF dependencies[id] = <<>>
                   THEN \E d \in Deltas : Call(t, id, d)
                   ELSE UNCHANGED <<pc, variableId, delta>>
       ELSE /\ pc' = [pc EXCEPT ![t] = "done"]
            /\ UNCHANGED <<variableId, delta, turns>>
    /\ UNCHANGED <<sysVars, histVars, variables, locks, aborted, failure,
                   variablesDependents, lockGuards, result, k, tmp, index>>

\* updateVariable: the two asserts hold; getAllDependents.  The call is recorded
\* in recomputed; serial stays as it is, the body has no write to repeat
UpdateEnter_p0(t) ==
    /\ ~aborted
    /\ variant = "part_000"
    /\ pc[t] = "upd_enter"
    /\ InRange(variableId[t])
    /\ IsPrimary(variableId[t])
    /\ variablesDependents' =
           [variablesDependents EXCEPT
               ![t] = getAllDependents(variant, variableId[t], dependents)]
    /\ lockGuards' = [lockGuards EXCEPT ![t] = <<>>]
    /\ pc' = [pc EXCEPT ![t] = "upd_lock"]
    /\ recomputed' = Recompute([recomputed EXCEPT ![variableId[t]] = @ + delta[t]])
    /\ UNCHANGED <<sysVars, serial, variables, locks, aborted, failure, i,
                   variableId, delta, result, k, tmp, index, turns>>

\* updateVariable: every lock is taken and the body ends there: the guards
\* unlock and the call returns
UpdateReturn_p0(t) ==
    /\ ~aborted
    /\ variant = "part_000"
    /\ pc[t] = "upd_lock"
    /\ Len(lockGuards[t]) = Len(variablesDependents[t])
    /\ locks' = Release(locks, lockGuards[t], t)
    /\ lockGuards' = [lockGuards EXCEPT ![t] = <<>>]
    /\ pc' = [pc EXCEPT ![t] = "loop"]
    /\ UNCHANGED <<sysVars, histVars, variables, aborted, failure, i, updVars,
                   index, turns>>

\* while (++i < 10) checkConsistency()
CheckerLoop_p0(t) ==
    /\ ~aborted
    /\ variant = "part_000"
    /\ t = CCThread
    /\ pc[t] = "loop"
    /\ i' = [i EXCEPT ![t] = @ + 1]
    /\ IF i[t] + 1 < CC_ITER_COUNT_p0 /\ turns < MaxTurns
       THEN pc' = [pc EXCEPT ![t] = "cc_lock"] /\ turns' = turns + 1
       ELSE pc' = [pc EXCEPT ![t] = "done"] /\ turns' = turns
    /\ UNCHANGED <<sysVars, histVars, variables, locks, aborted, failure,
                   updVars, lockGuards, index>>

\* checkConsistency, one turn of the loop over index: assert(expectedValue ==
\* actualValue) for every variable, the primaries too (their expected value is 0)
CheckStep_p0(t) ==
    /\ ~aborted
    /\ variant = "part_000"
    /\ pc[t] = "cc_check"
    /\ index[t] < size
    /\ IF expectedValue(variables, index[t]) = variables[index[t]]
       THEN /\ index' = [index EXCEPT ![t] = @ + 1]
            /\ UNCHANGED <<aborted, failure>>
       ELSE /\ Abort([kind |-> "consistency", thread |-> t, id |-> index[t],
                      expected |-> expectedValue(variables, index[t]),
                      actual |-> variables[index[t]]])
            /\ UNCHANGED index
    /\ UNCHANGED <<sysVars, histVars, variables, locks, pc, i, updVars,
                   lockGuards, turns>>

NextSensor ==
    \/ \E t \in Threads : WorkerLoop_p0(t)
    \/ \E t \in Threads : UpdateEnter_p0(t)
    \/ \E t \in Threads : UpdateLock(t)
    \/ \E t \in Threads : UpdateReturn_p0(t)
    \/ \E t \in Threads : CheckerLoop_p0(t)
    \/ \E t \in Threads : MainJoin(t)
    \/ \E t \in Threads : CheckLock(t)
    \/ \E t \in Threads : CheckStep_p0(t)
    \/ \E t \in Threads : CheckReturn(t)

SpecSensor == InitSensor /\ [][NextSensor]_vars

-----------------------------------------------------------------------------
(* The program of main.cpp as main() runs it: the 11-variable graph        *)

\* main(): the dependencies handed to the constructor
GraphDemo ==
    Vec(<< <<>>, <<>>, <<>>, <<>>, <<2, 1>>, <<1, 2>>, <<4, 3, 0>>, <<>>,
           <<7, 6>>, <<2>>, <<8, 9, 5>> >>)

InitDemo == InitWith({"main"}, {GraphDemo})

\* The threads leave their loops in the order of their ids.  Leaving the loop
\* changes only the thread's own pc and i, which no other thread reads before
\* gatherThreads has joined them all, so every run has the same updates, checks
\* and values as one in which the exits are put in this order: the runs with
\* the exits in another order are left out, seven threads being too many to
\* enumerate them.
EndInOrder ==
    \A t \in Threads \ {MainThread} :
        pc[t] = "done" => \A u \in 1..(t - 1) : pc[u] = "done"

\* the step A, among the runs whose threads end in order
Ordered(A) == A /\ EndInOrder'

\* one turn of checkConsistency's loop over index, whichever way its assert goes
CheckStep(t) ==
    /\ pc[t] = "cc_check"
    /\ CheckPass(t) \/ CheckFail(t)

NextDemo ==
    \/ \E t \in Threads : Ordered(WorkerLoop(t))
    \/ \E t \in Threads : UpdateEnter(t)
    \/ \E t \in Threads : UpdateLock(t)
    \/ \E t \in Threads : UpdateSearch(t)
    \/ \E t \in Threads : UpdateLoad(t)
    \/ \E t \in Threads : UpdateStore(t)
    \/ \E t \in Threads : UpdateReturn(t)
    \/ \E t \in Threads : Ordered(CheckerLoop(t))
    \/ \E t \in Threads : MainJoin(t)
    \/ \E t \in Threads : CheckLock(t)
    \/ \E t \in Threads : CheckStep(t)
    \/ \E t \in Threads : CheckReturn(t)

SpecDemo == InitDemo /\ [][NextDemo]_vars

-----------------------------------------------------------------------------
(* Notions the properties are stated with *)

Secondary == {id \in Ids : dependencies[id] # <<>>}

\* thread t is inside updateVariable, past its asserts
InUpdate(t) == pc[t] \in {"upd_lock", "upd_add", "upd_store"}

\* no worker is inside updateVariable
Quiescent == \A t \in Workers : pc[t] \in {"loop", "done"}

\* thread t stands before a lock acquisition
Acquiring(t) ==
    \/ pc[t] = "cc_lock"
    \/ pc[t] = "upd_lock" /\ Len(lockGuards[t]) < Len(variablesDependents[t])

\* the lock thread t is about to acquire
Wanted(t) ==
    IF pc[t] = "cc_lock" THEN Len(lockGuards[t])
    ELSE variablesDependents[t][Len(lockGuards[t]) + 1]

\* thread t waits for a lock that thread u holds
WaitsFor(t, u) == Acquiring(t) /\ locks[Wanted(t)] = u

Blocked(t) == \E u \in Threads : WaitsFor(t, u)

StrictlyAscending(s) == \A m, n \in 1..Len(s) : m < n => s[m] < s[n]

\* thread t has made the first store of its write loop and not yet the last
MidWrite(t) ==
    /\ pc[t] \in {"upd_add", "upd_store"}
    /\ 1 < k[t]
    /\ k[t] <= Len(result[t])

\* vals with the whole update of each thread of the sequence ts taken back
RECURSIVE Undo(_, _)
Undo(vals, ts) ==
    IF ts = <<>> THEN vals
    ELSE Undo(addAll(vals, search(variant, variableId[Head(ts)], dependents),
                     0 - delta[Head(ts)]),
              Tail(ts))

RECURSIVE SeqOf(_)
SeqOf(S) == IF S = {} THEN <<>>
            ELSE LET x == CHOOSE y \in S : TRUE IN <<x>> \o SeqOf(S \ {x})

\* thread t is at the load or the store of variables[id] += delta
Writing(t) ==
    \/ pc[t] = "upd_store"
    \/ pc[t] = "upd_add" /\ k[t] <= Len(result[t])

\* the id whose value thread t is adding to
WriteTarget(t) == result[t][k[t]]

\* the calls of the workers t and u are both in progress and their closures meet
Overlapping(t, u) ==
    /\ t # u
    /\ InUpdate(t)
    /\ InUpdate(u)
    /\ Closure(variableId[t]) \cap Closure(variableId[u]) # {}

\* the smallest id common to the closures of the calls of t and u
FirstCommon(t, u) ==
    CHOOSE m \in Closure(variableId[t]) \cap Closure(variableId[u]) :
        \A n \in Closure(variableId[t]) \cap Closure(variableId[u]) : m <= n

\* thread t is inside updateVariable or checkConsistency
InCall(t) ==
    pc[t] \in {"upd_enter", "upd_lock", "upd_add", "upd_store", "cc_lock", "cc_check"}

\* the inputs of v that lie in the closure of id: the entries of the input list
\* (part_001, whose dependents index keeps repeats) or the distinct ids (main.cpp)
InputsWithin(id, v) ==
    IF variant = "part_001"
    THEN Cardinality({n \in DOMAIN dependencies[v] :
                         dependencies[v][n] \in Closure(id)})
    ELSE Cardinality(Range(dependencies[v]) \cap Closure(id))

\* how many times a call updateVariable(id, .) is to add delta to variable v
Additions(id, v) == IF v = id THEN 1 ELSE InputsWithin(id, v)

\* the sum of f over the set S
RECURSIVE SumOver(_, _)
SumOver(S, f) ==
    IF S = {} THEN 0
    ELSE LET x == CHOOSE y \in S : TRUE
         IN  f[x] + SumOver(S \ {x}, f)

\* the primary variables
Primary == {id \in Ids : dependencies[id] = <<>>}

-----------------------------------------------------------------------------
(* C1: every execution of checkConsistency, periodic or final, finds every *)
(* secondary variable equal to the sum of the stored values of its inputs, *)
(* repeats counted: the consistency assertion never fails.                 *)
C1_CheckAlwaysSucceeds ==
    /\ \A t \in Checkers :
          pc[t] = "cc_check" => \A v \in Secondary : variables[v] = InputSum(v)
    /\ failure.kind # "consistency"

(* C2: incremental propagation agrees with full recomputation: after each *)
(* call of a sequence of updateVariable calls on primary ids, run one      *)
(* after another from the all-zero state, the stored values are those got  *)
(* by adding delta to the primary and recomputing every secondary variable *)
(* bottom-up as the sum of its inputs.                                     *)
C2_IncrementalIsRecomputation == variables = recomputed

(* C3: no deadlock: there is never a set of threads each of which waits    *)
(* for a lock held by a thread of the set.                                 *)
C3_NoDeadlock ==
    \A D \in SUBSET Threads :
        D # {} => \E t \in D : ~(\E u \in D : WaitsFor(t, u))

\* a thread waits for a lock another thread holds
C3_Witness == \E t, u \in Threads : t # u /\ WaitsFor(t, u)

(* C4: an update is atomic for every consistency check: while a check      *)
(* reads the values no updateVariable call is between its first and its    *)
(* last store, and the values read are those of the calls begun so far     *)
(* with each call still in progress applied either wholly or not at all.   *)
C4_UpdateAtomicForCheck ==
    \A c \in Checkers :
        pc[c] = "cc_check" =>
            /\ \A t \in Workers : ~MidWrite(t)
            /\ \E A \in SUBSET {t \in Workers : InUpdate(t)} :
                  variables = Undo(serial, SeqOf(A))

\* a check reads the values while an update that has begun waits for its locks
C4_Witness ==
    /\ pc[CCThread] = "cc_check"
    /\ \E t \in Workers : pc[t] = "upd_lock"

(* C5: every thread acquires locks in strictly ascending id order, each    *)
(* id once; the locks a thread holds are those of its guards;              *)
(* updateVariable writes holding exactly the locks of the closure of its   *)
(* target, checkConsistency reads holding the locks 0..N-1.                *)
C5_AscendingLockOrder ==
    \A t \in Threads :
        /\ StrictlyAscending(lockGuards[t])
        /\ {id \in Ids : locks[id] = t} = Range(lockGuards[t])
        /\ pc[t] \in {"upd_add", "upd_store"} =>
               Range(lockGuards[t]) = Closure(variableId[t])
        /\ pc[t] = "cc_check" => lockGuards[t] = [n \in 1..size |-> n - 1]

\* an update holds the locks of a closure of three ids
C5_Witness ==
    \E t \in Workers :
        /\ pc[t] = "upd_store"
        /\ Len(lockGuards[t]) >= 3
        /\ variableId[t] # lockGuards[t][1]

(* C6: two concurrent updateVariable calls whose closures share no id lock *)
(* disjoint sets of ids, and neither waits for a lock the other holds.     *)
C6_DisjointUpdatesIndependent ==
    \A t, u \in Workers :
        (/\ t # u
         /\ InUpdate(t)
         /\ InUpdate(u)
         /\ Closure(variableId[t]) \cap Closure(variableId[u]) = {})
        => /\ Range(variablesDependents[t]) \cap Range(variablesDependents[u]) = {}
           /\ ~WaitsFor(t, u)

\* two updates with disjoint closures are both in their write loops
C6_Witness ==
    \E t, u \in Workers :
        /\ t # u
        /\ pc[t] = "upd_store"
        /\ pc[u] = "upd_store"
        /\ Closure(variableId[t]) \cap Closure(variableId[u]) = {}

(* C7: no update is lost: whenever no updateVariable call is in progress,  *)
(* the stored values are those the calls made so far give when applied one *)
(* after another, and every primary variable holds the sum of the deltas   *)
(* applied to it.                                                          *)
C7_NoLostUpdate ==
    Quiescent =>
        /\ variables = serial
        /\ \A p \in Ids \ Secondary : variables[p] = recomputed[p]

\* both workers have updated the same primary and have ended
C7_Witness ==
    /\ baseVariableCount = 2
    /\ \A t \in Workers : pc[t] = "done" /\ delta[t] # 0
    /\ variableId[1] = variableId[2]
    /\ variables[variableId[1]] = delta[1] + delta[2]

C10_WritesWithinClosure ==
    [][\A v \in Ids :
          variables'[v] # variables[v] =>
              \E t \in Workers :
                  /\ pc[t] = "upd_store"
                  /\ pc'[t] = "upd_add"
                  /\ v \in Closure(variableId[t])]_vars

\* an update has made all its stores and a variable outside its closure exists
C10_Witness ==
    \E t \in Workers :
        /\ pc[t] = "upd_add"
        /\ k[t] > Len(result[t])
        /\ Closure(variableId[t]) # Ids

C11_AddsOncePerClosureId ==
    [][turns' = turns + 1 =>
          \A v \in Ids :
              variables'[v] - variables[v] =
                  IF v \in Closure(variableId'[1]) THEN delta'[1] ELSE 0]_vars

(* C11, amended: in one updateVariable(id, delta) call delta is added once *)
(* to id and, to every other variable v, once per input of v that lies in  *)
(* the closure of id (per entry of the input list in part_001, per         *)
(* distinct input in main.cpp): at least once to every id of the closure,  *)
(* possibly several times, and never to an id outside it.                  *)
C11_AddsOncePerInputWithin ==
    [][turns' = turns + 1 =>
          \A v \in Ids :
              /\ variables'[v] - variables[v] =
                     Additions(variableId'[1], v) * delta'[1]
              /\ Additions(variableId'[1], v) >= 1 <=> v \in Closure(variableId'[1])]_vars

\* one call has added its delta twice to a variable
C11_Witness ==
    /\ turns = 1
    /\ delta[1] # 0
    /\ \E v \in Closure(variableId[1]) : variables[v] = 2 * delta[1]

(* C12: main.cpp counts repeated inputs with their multiplicity: when the  *)
(* primary p occurs k >= 2 times in the input list of the secondary v and  *)
(* v depends on p in no other way, updateVariable(p, delta) from the       *)
(* all-zero state leaves value(v) = k * delta, the sum of the inputs of v, *)
(* so that the following checkConsistency finds no mismatch at v.          *)
C12_RepeatsCountedWithMultiplicity ==
    (variant = "main" /\ turns = 1) =>
        \A v \in Secondary :
            (/\ Count(dependencies[v], variableId[1]) >= 2
             /\ \A n \in DOMAIN dependencies[v] :
                    dependencies[v][n] # variableId[1] =>
                        dependencies[v][n] \notin Closure(variableId[1]))
            => /\ variables[v] = Count(dependencies[v], variableId[1]) * delta[1]
               /\ variables[v] = InputSum(v)
               /\ failure.kind = "consistency" => failure.id # v

\* u lists the primary p once and depends on it in no other way; v lists u once
\* and p once and depends on p in no other way
TwoLevels(p, u, v) ==
    /\ dependencies[p] = <<>>
    /\ u # v
    /\ Count(dependencies[u], p) = 1
    /\ Cardinality({n \in DOMAIN dependencies[u] :
                       dependencies[u][n] \in Closure(p)}) = 1
    /\ Count(dependencies[v], p) = 1
    /\ Count(dependencies[v], u) = 1
    /\ Cardinality({n \in DOMAIN dependencies[v] :
                       dependencies[v][n] \in Closure(p)}) = 2

(* C13: a primary used at two levels is propagated along both: when the    *)
(* secondary u lists the primary p once and the secondary v lists both u   *)
(* and p, a call updateVariable(p, delta) made when every sum holds        *)
(* changes value(p) and value(u) by delta and value(v) by 2 * delta, and   *)
(* the checkConsistency that follows finds every sum to hold.              *)
C13_TwoLevelsPropagated ==
    [][(turns' = turns + 1 /\ Mismatched = {}) =>
          \A u, v \in Ids :
              TwoLevels(variableId'[1], u, v) =>
                  /\ variables'[variableId'[1]] = variables[variableId'[1]] + delta'[1]
                  /\ variables'[u] = variables[u] + delta'[1]
                  /\ variables'[v] = variables[v] + 2 * delta'[1]
                  /\ Mismatched' = {}]_vars

(* C14: updateVariable(id, 0) on a primary id leaves the stored value of   *)
(* every variable unchanged.                                               *)
C14_ZeroDeltaChangesNothing ==
    [][(turns' = turns + 1 /\ delta'[1] = 0) => variables' = variables]_vars

\* a call with delta 0 has followed a call that made its target nonzero
C14_Witness ==
    /\ turns = 2
    /\ delta[1] = 0
    /\ variables[variableId[1]] # 0
    /\ Closure(variableId[1]) # {variableId[1]}

(* C15: every write of a stored value is made by a thread that holds the  *)
(* lock of that variable, checkConsistency reads the values holding every  *)
(* lock, and no value is accessed by two threads at once when one of them  *)
(* writes.                                                                 *)
C15_AccessUnderLock ==
    /\ [](/\ \A t \in Threads : Writing(t) => locks[WriteTarget(t)] = t
          /\ \A c \in Threads :
                 pc[c] = "cc_check" => \A id \in Ids : locks[id] = c
          /\ \A t, u \in Threads :
                 (t # u /\ Writing(t)) =>
                     /\ pc[u] # "cc_check"
                     /\ Writing(u) => WriteTarget(u) # WriteTarget(t))
    /\ [][\A v \in Ids :
              variables'[v] # variables[v] =>
                  \E t \in Threads :
                      /\ pc[t] = "upd_store"
                      /\ WriteTarget(t) = v
                      /\ locks[v] = t
                      /\ locks'[v] = t]_vars

\* a thread adds to a secondary variable while another waits for its lock
C15_Witness ==
    \E t, u \in Threads :
        /\ t # u
        /\ pc[t] = "upd_store"
        /\ WriteTarget(t) \in Secondary
        /\ WaitsFor(u, t)
        /\ Wanted(u) = WriteTarget(t)

(* C16: two concurrent updateVariable calls whose closures share an id are *)
(* totally ordered: while one of them holds the lock of the smallest       *)
(* common id the other stands in its lock loop without that lock, having   *)
(* written nothing; a call in its write loop holds that lock; and the lock *)
(* is given up only by the return of the call, after its last write,       *)
(* together with every other lock of the call.                             *)
C16_OverlappingUpdatesOrdered ==
    /\ [](\A t, u \in Workers :
              Overlapping(t, u) =>
                  /\ locks[FirstCommon(t, u)] = t =>
                         /\ pc[u] = "upd_lock"
                         /\ FirstCommon(t, u) \notin Range(lockGuards[u])
                  /\ pc[t] \in {"upd_add", "upd_store"} =>
                         locks[FirstCommon(t, u)] = t)
    /\ [][\A t, u \in Workers :
              (/\ Overlapping(t, u)
               /\ locks[FirstCommon(t, u)] = t
               /\ locks'[FirstCommon(t, u)] # t)
              => /\ pc[t] = "upd_add"
                 /\ k[t] > Len(result[t])
                 /\ pc'[t] = "loop"
                 /\ \A id \in Ids : locks'[id] # t
                 /\ pc'[u] = "upd_lock"]_vars

\* a call is in its write loop while a call on another primary waits for the
\* smallest id their closures share
C16_Witness ==
    \E t, u \in Workers :
        /\ Overlapping(t, u)
        /\ variableId[t] # variableId[u]
        /\ pc[t] = "upd_store"
        /\ WaitsFor(u, t)
        /\ Wanted(u) = FirstCommon(t, u)

(* C17: for every graph and every id, the lock list computed for           *)
(* updateVariable(id, .) holds the id and every id reachable from it       *)
(* through the dependents relation, and nothing else, each once, in        *)
(* ascending order.                                                        *)
C17_LockListIsClosure ==
    pc[1] = "upd_lock" =>
        /\ StrictlyAscending(variablesDependents[1])
        /\ Range(variablesDependents[1]) = Closure(variableId[1])

\* the list is that of a closure which the traversal of main.cpp meets out of
\* ascending order and in which it meets an id twice
C17_Witness ==
    /\ pc[1] = "upd_lock"
    /\ variant = "main"
    /\ uniqueSearchUnsorted(variableId[1], dependents) # variablesDependents[1]
    /\ Len(search(variant, variableId[1], dependents)) > Len(variablesDependents[1])

(* C18: in main.cpp computeDependents yields, for each id v, the ids d     *)
(* whose input list holds v, each once even when v is repeated in that     *)
(* list, and no other id.                                                  *)
C18_DependentsIsSetInverse ==
    variant = "main" =>
        \A v \in Ids :
            /\ \A m, n \in DOMAIN dependents[v] :
                   m # n => dependents[v][m] # dependents[v][n]
            /\ Range(dependents[v]) = {d \in Ids : v \in Range(dependencies[d])}

\* main.cpp has built the index of a graph in which an input is repeated and a
\* variable has two dependents, and a lock list has been drawn from it
C18_Witness ==
    /\ variant = "main"
    /\ pc[1] = "upd_lock"
    /\ Len(variablesDependents[1]) >= 2
    /\ \E v, d \in Ids : Count(dependencies[d], v) >= 2 /\ Found(dependents[v], d)
    /\ \E v \in Ids : Len(dependents[v]) >= 2

(* C19: the closure search is never run by a thread that holds a variable  *)
(* lock: within updateVariable every traversal of the dependents graph,    *)
(* that of getAllDependents and that of search() for the write loop,       *)
(* happens before the first lock is acquired.                              *)
C19_SearchHoldsNoLock ==
    [][\A t \in Threads :
          (\/ pc[t] = "upd_enter" /\ pc'[t] = "upd_lock"
           \/ pc[t] = "upd_lock" /\ pc'[t] = "upd_add")
          => \A id \in Ids : locks[id] # t]_vars

(* C20: locks are held only inside an operation: in every state each held  *)
(* lock belongs to a thread that is executing updateVariable or            *)
(* checkConsistency, so a thread that has returned from a call holds none. *)
C20_LocksOnlyInsideOperation ==
    \A id \in Ids :
        locks[id] # NoOwner =>
            /\ locks[id] \in Threads
            /\ pc[locks[id]] \in {"upd_lock", "upd_add", "upd_store",
                                   "cc_lock", "cc_check"}

\* a worker has returned from a call that held two locks or more, a check has
\* returned too, and every lock is free
C20_Witness ==
    /\ \E t \in Workers :
           /\ pc[t] \in {"loop", "done"}
           /\ Len(variablesDependents[t]) >= 2
           /\ variables[variableId[t]] # 0
    /\ pc[CCThread] = "done"
    /\ index[CCThread] = size
    /\ \A id \in Ids : locks[id] = NoOwner

(* C21: run to completion: every updateVariable and checkConsistency call  *)
(* that has started returns, and every worker thread and the checker       *)
(* thread terminate and the final consistency check is made.  Whatever the *)
(* scheduling, this excludes that the process is ended by a failed assert  *)
(* while a call is in progress or a thread has not terminated: after abort *)
(* no thread takes a step.                                                 *)
C21_RunToCompletion ==
    aborted => \A t \in Threads : ~InCall(t) /\ pc[t] = "done"

(* C22: stored values are written directly only for primary variables:     *)
(* every updateVariable call of a worker thread has an in-range, primary   *)
(* target id, so both precondition asserts hold at every call and none has *)
(* failed; a primary value changes only in the write loop of a call made   *)
(* on it, and a secondary value only in the write loop of a call made on a *)
(* primary it depends on.                                                  *)
C22_OnlyPrimariesWrittenDirectly ==
    /\ [](/\ \A t \in Threads :
                pc[t] = "upd_enter" =>
                    InRange(variableId[t]) /\ IsPrimary(variableId[t])
          /\ \A t \in Threads :
                InUpdate(t) => t \in Workers /\ IsPrimary(variableId[t])
          /\ failure.kind # "precondition")
    /\ [][\A v \in Ids :
            variables'[v] # variables[v] =>
                \E t \in Workers :
                    /\ pc[t] = "upd_store"
                    /\ result[t][k[t]] = v
                    /\ IsPrimary(variableId[t])
                    /\ v \in Closure(variableId[t])
                    /\ IsPrimary(v) => v = variableId[t]]_vars

\* a worker of main.cpp drew a secondary id and skipped it, then called
\* updateVariable on a primary, whose write loop has changed a secondary
C22_Witness ==
    /\ variant = "main"
    /\ \E t \in Workers :
           /\ i[t] >= 2
           /\ pc[t] = "upd_add"
           /\ k[t] > 1
           /\ \E v \in Secondary : variables[v] # 0

(* C23: in SensorSystem (part_000) updateVariable(p, delta) adds delta to  *)
(* the stored value of p and of every secondary that depends directly or   *)
(* indirectly on p, in one piece under the locks of the closure: whenever  *)
(* no update is in progress, every variable holds the total of the deltas  *)
(* of the calls made on the primaries whose closure it belongs to.         *)
C23_SensorUpdateAddsDelta ==
    Quiescent =>
        \A v \in Ids :
            variables[v] =
                SumOver({p \in Primary : v \in Closure(p)},
                        [p \in Primary |-> recomputed[p]])

C25_DemoGraphChecksSucceed ==
    /\ ~aborted
    /\ failure = NoFailure
    /\ \A t \in Checkers :
           pc[t] = "cc_check" =>
               \A id \in Secondary : variables[id] = InputSum(id)

\* the final check has run to its end after two updates that changed
\* variable 10, one of them by three times its delta
C25_Witness ==
    /\ pc[MainThread] = "done"
    /\ index[MainThread] = size
    /\ \E t \in Workers, u \in Workers :
           /\ t # u
           /\ variableId[t] = 2
           /\ variableId[u] = 7
           /\ delta[t] # 0
           /\ delta[u] # 0
           /\ variables[2] = delta[t]
           /\ variables[10] = 3 * delta[t] + delta[u]

(* C26: updates commute: once the updateVariable calls made so far have    *)
(* all returned, the stored values depend only on which deltas were given  *)
(* to which primary, not on the order or the interleaving of the calls:    *)
(* every variable holds, summed over the primaries, the total of the       *)
(* deltas given to the primary times the number of additions one call on   *)
(* it makes to the variable.  In particular updateVariable(p, delta)       *)
(* followed by updateVariable(p, -delta) restores every stored value.      *)
C26_UpdatesCommute ==
    Quiescent =>
        \A v \in Ids :
            variables[v] =
                SumOver(Primary, [p \in Primary |-> recomputed[p] * Additions(p, v)])

\* two workers have called updateVariable on the same primary, which has
\* dependents, with opposite deltas; both calls have returned and every
\* value is back to zero
C26_Witness ==
    \E t \in Workers, u \in Workers :
        /\ t # u
        /\ pc[t] \in {"loop", "done"}
        /\ pc[u] \in {"loop", "done"}
        /\ variableId[t] = variableId[u]
        /\ delta[t] # 0
        /\ delta[u] = -delta[t]
        /\ Len(variablesDependents[t]) >= 2
        /\ Len(variablesDependents[u]) >= 2
        /\ \A v \in Ids : variables[v] = 0

=============================================================================
